---- MODULE Spec2Model ----
(***************************************************************************)
(* airwire: live audio over UDP.  A transmitter accumulates captured       *)
(* samples into frames, encodes each frame and sends it as one datagram;   *)
(* a receiver validates datagrams, filters them by sequence id, decodes    *)
(* them and appends the samples to a queue that the playback callback      *)
(* drains.  The model follows src/src/main.rs, src/src/audio.rs (the PCM   *)
(* codec) and src/src/opus.rs (the opus wrapper).                          *)
(*                                                                         *)
(* Numbers.  A sample (f32) is modelled as an integer count of             *)
(* 1/(32767 * SubSteps): the value 1.0 is 32767 * SubSteps.  A byte is an  *)
(* integer 0..255.  An i64 is kept as a small integer on the sender, where *)
(* I64_MAX stands for i64::MAX scaled down so that the counter's wrap is   *)
(* reachable, and as its 8 big-endian two's complement bytes on the wire   *)
(* and in the receiver, where it is compared bytewise (exact for all 2^64  *)
(* values).                                                                *)
(***************************************************************************)
EXTENDS Integers, Sequences, FiniteSets, TLC

VARIABLES
    \* configuration snapshot (AudioConfig), fixed after start
    frame_size, channels, stereo_swap, enable_packet_pacer, repeat_packets,
    codec,
    \* transmit callback state (closure captures)
    input_buffer, buffer_pos, encoded_data_buffer, packet_buffer,
    next_packet_id, tx_state,
    \* what the transmitter has done so far (history): the samples captured,
    \* the frames handled, the index computed for every accumulator write
    captured, tx_log, tx_writes,
    \* the network: every datagram sent so far, in sending order
    wire, net_pos,
    \* receive thread
    receive_buffer, decode_buffer, last_recv_id, rx_pc, rx_log,
    \* jitter buffer and its mutex
    audio_buffer, lock,
    \* playback callback
    pb_pc, data, filled,
    \* what went through the jitter buffer (history)
    pushed, played,
    \* a codec called on its own, outside the pipeline: the samples given to
    \* encode, the bytes given to decode, decode's output vector, what that
    \* vector held before the call, and how far the calls have got
    pcm_in, pcm_bytes, pcm_out, pcm_prior, pcm_pc

cfg_vars == <<frame_size, channels, stereo_swap, enable_packet_pacer,
              repeat_packets, codec>>
tx_vars  == <<input_buffer, buffer_pos, encoded_data_buffer, packet_buffer,
              next_packet_id, tx_state, captured, tx_log, tx_writes>>
net_vars == <<wire, net_pos>>
rx_vars  == <<receive_buffer, decode_buffer, last_recv_id, rx_pc, rx_log>>
jb_vars  == <<audio_buffer, lock, pushed>>
pb_vars  == <<pb_pc, data, filled, played>>
pcm_vars == <<pcm_in, pcm_bytes, pcm_out, pcm_prior, pcm_pc>>
vars == <<cfg_vars, tx_vars, net_vars, rx_vars, jb_vars, pb_vars, pcm_vars>>

----------------------------------------------------------------------------
(* Bounds of the model *)

\* stand-in for i64::MAX (scaled down: the wrap at I64_MAX - 16 is reachable)
I64_MAX == 21
\* resolution of the modelled samples: 1.0 is 32767 * SubSteps
SubSteps == 2
\* longest capture batch handed to one transmit callback
MaxBatch == 2
\* most samples captured in one run
MaxCaptured == 4
\* most datagrams the receive loop takes in one run
MaxRecv == 3
\* longest destination slice handed to one playback callback
MaxDest == 2
\* most playback callbacks in one run
MaxPlay == 2
\* most datagrams taken while the playback callback runs beside the loop
MaxPush == 2
\* most datagrams taken from an ordered network, and most replays among them
MaxOrderedRecv == 6
MaxReplay == 1
\* a codec called on its own: longest sample vector, longest byte vector
\* and longest prior output vector
MaxPcmSamples == 2
MaxPcmBytes == 5
MaxPcmOutput == 3

\* the configurations tried: --frame-size, --channels, --repeat-packets
FrameSizes == {1, 2}
ChannelCounts == {1, 2}
RepeatCounts == {0, 1, 2}

(* Program constants *)
SIGNATURE_SIZE == 2
ID_SIZE == 8
RolloverMargin == 16
PcmScale == 32767

----------------------------------------------------------------------------
(* Generic helpers *)

Min2(a, b) == IF a < b THEN a ELSE b
Max2(a, b) == IF a > b THEN a ELSE b

\* Vec::resize(n, fill): truncate or pad at the end
Resize(v, n, fill) ==
    [i \in 1..n |-> IF i <= Len(v) THEN v[i] ELSE fill]

\* n copies of x
Repeat(x, n) == [i \in 1..n |-> x]

\* the slice v[from..to] of Rust (0-based, half open); callers check from <= to
Slice(v, from, to) == SubSeq(v, from + 1, to)

----------------------------------------------------------------------------
(* Derived configuration: the closures of main() *)

calculate_sample_frame_size == frame_size * channels
calculate_packet_size == frame_size * channels * 2

\* --sample-rate of the configurations tried (the default is 48000)
sample_rate == 1000

calculate_max_buffer_frames ==
    (sample_rate * frame_size) \div (1000 * frame_size)

\* the argument of VecDeque::with_capacity for the jitter buffer: storage
\* reserved up front, not a limit
ReservedSamples == calculate_max_buffer_frames * frame_size * channels

----------------------------------------------------------------------------
(* Wire framing *)

Signature == <<13, 37>>

add_signature(buffer) == buffer \o Signature

\* i64::to_be_bytes: n big-endian two's complement bytes of x
RECURSIVE BEBytes(_, _)
BEBytes(x, n) ==
    IF n = 0 THEN <<>> ELSE Append(BEBytes(x \div 256, n - 1), x % 256)

add_packet_id(buffer, id) == buffer \o BEBytes(id, ID_SIZE)

\* the 8 received bytes of an id, compared as i64 values: flipping the sign
\* bit of the first byte turns two's complement order into bytewise order
I64Key(b) == [i \in 1..Len(b) |-> IF i = 1 THEN (b[1] + 128) % 256 ELSE b[i]]

I64Less(a, b) ==
    LET ka == I64Key(a)
        kb == I64Key(b)
        diff == {i \in 1..Len(a) : ka[i] # kb[i]}
    IN  diff # {} /\ (LET m == CHOOSE i \in diff : \A j \in diff : i <= j
                      IN  ka[m] < kb[m])

I64Negative(b) == b[1] >= 128

\* BigEndian::read_i64 as an integer; only for ids known to be small
\* (the sign-extended encodings of the sender's counter)
RECURSIVE BEValue(_)
BEValue(b) ==
    IF Len(b) = 1 THEN (IF b[1] >= 128 THEN b[1] - 256 ELSE b[1])
    ELSE BEValue(SubSeq(b, 1, Len(b) - 1)) * 256 + b[Len(b)]

----------------------------------------------------------------------------
(* PCM codec (audio.rs).  It is the codec of --codec none, the default;    *)
(* neither PCMCodec::encode nor PCMCodec::decode ever returns Err.         *)

One == PcmScale * SubSteps

\* sample.max(-1.0).min(1.0)
Clamp(s) == Max2(-One, Min2(One, s))

\* (x * 32767.0) as i16: the cast truncates toward zero
SampleToI16(s) ==
    LET c == Clamp(s)
    IN  IF c >= 0 THEN c \div SubSteps ELSE -((-c) \div SubSteps)

\* fault of the byte order: the high byte written first
I16ToLE_BigEndian(v) == LET u == v % 65536 IN <<u \div 256, u % 256>>

\* write_i16::<LittleEndian>
I16ToLE(v) == LET u == v % 65536 IN <<u % 256, u \div 256>>

\* LittleEndian::read_i16
LEToI16(lo, hi) == LET u == hi * 256 + lo IN IF u >= 32768 THEN u - 65536 ELSE u

\* (sample_i16 as f32 / 32767.0).min(1.0).max(-1.0)
I16ToSample(v) == Max2(-One, Min2(One, v * SubSteps))

\* PCMCodec::encode: every sample is written at the END of output
\* (Write for Vec<u8> appends); output is not cleared first
PCMEncode(input, output) ==
    output \o [k \in 1..(2 * Len(input)) |->
                 I16ToLE(SampleToI16(input[(k + 1) \div 2]))[2 - (k % 2)]]

\* fault of decode: the output vector is used at the length it came with
PCMDecode_NoResize(input, output) ==
    [i \in 1..Len(output) |->
        IF i <= Len(input) \div 2
        THEN I16ToSample(LEToI16(input[2 * i - 1], input[2 * i]))
        ELSE output[i]]

\* PCMCodec::decode: output resized to input.len() / 2, one sample per pair
PCMDecode(input, output) ==
    LET n == Len(input) \div 2
        resized == IF Len(output) # n THEN Resize(output, n, 0) ELSE output
    IN  [i \in 1..Len(resized) |->
            IF i <= n THEN I16ToSample(LEToI16(input[2 * i - 1], input[2 * i]))
            ELSE resized[i]]

----------------------------------------------------------------------------
(* Opus codec (opus.rs), --codec opus.  libopus is outside the repository: *)
(* its packets are modelled as a marker byte followed by one byte per      *)
(* sample (the high byte of the 16-bit value), and whether a call fails is *)
(* the library's choice (fault).  What the wrapper does with the library's *)
(* result is from opus.rs.                                                 *)

OpusToc == 252

OpusPacket(input) ==
    <<OpusToc>> \o [i \in 1..Len(input) |-> (SampleToI16(input[i]) \div 256) % 256]

OpusSample(b) == I16ToSample((IF b >= 128 THEN b - 256 ELSE b) * 256)

\* OpusCodec::encode: encode_float writes the packet at the start of the
\* output slice, then output.resize(wrote, 0); Err when the library fails
\* or the packet does not fit
OpusEncode(input, output, fault) ==
    LET packet == OpusPacket(input)
    IN  IF fault \/ Len(packet) > Len(output)
        THEN [ok |-> FALSE, out |-> output]
        ELSE [ok |-> TRUE, out |-> packet]

\* OpusCodec::decode: decode_float writes the samples at the start of the
\* output slice, which keeps its length; Err when the library fails, the
\* packet is not one of its own or the samples do not fit
OpusDecode(input, output, fault) ==
    IF fault \/ input = <<>> \/ Len(input) - 1 > Len(output)
    THEN [ok |-> FALSE, out |-> output]
    ELSE IF input[1] # OpusToc THEN [ok |-> FALSE, out |-> output]
    ELSE [ok |-> TRUE,
          out |-> [i \in 1..Len(output) |->
                      IF i < Len(input) THEN OpusSample(input[i + 1])
                      ELSE output[i]]]

\* encoder.encode / decoder.decode through the Box<dyn ..> of the
\* configured codec; the PCM codec has no Err path
Encode(input, output, fault) ==
    IF codec = "opus" THEN OpusEncode(input, output, fault)
    ELSE [ok |-> TRUE, out |-> PCMEncode(input, output)]

Decode(input, output, fault) ==
    IF codec = "opus" THEN OpusDecode(input, output, fault)
    ELSE [ok |-> TRUE, out |-> PCMDecode(input, output)]

\* the calls the library may fail: with opus the first encode of a
\* callback, and any decode
EncodeFaults == IF codec = "opus" THEN {0, 1} ELSE {0}
DecodeFaults == IF codec = "opus" THEN BOOLEAN ELSE {FALSE}

----------------------------------------------------------------------------
(* Transmit: the input stream callback (main.rs 245-299) *)

\* the running state of one callback invocation: the closure's captures,
\* the datagrams handed to the socket (out), the frames encoded (log) and
\* the number of send calls (nsent) and encode calls (nenc) made in this
\* invocation; encode call number encFailAt (if any) returns Err
TxCaptures ==
    [ib |-> input_buffer, pos |-> buffer_pos, edb |-> encoded_data_buffer,
     pb |-> packet_buffer, id |-> next_packet_id, state |-> tx_state,
     out |-> <<>>, log |-> tx_log, nsent |-> 0, seen |-> Len(captured),
     nenc |-> 0, encFailAt |-> 0, writes |-> tx_writes]

\* the stereo swap hack: the index a sample is written at
SwapIndex(pos) ==
    IF stereo_swap THEN (IF pos % 2 = 0 THEN pos + 1 ELSE pos - 1) ELSE pos

\* faults of the counter update: the roll to negative left out, and the
\* roll one step late
NextId_NoRoll(id) == id + 1

NextId_LateRoll(id) ==
    IF id + 1 > I64_MAX - RolloverMargin + 1 THEN -2 ELSE id + 1

\* next_packet_id += 1, then the roll to negative
NextId(id) ==
    IF id + 1 > I64_MAX - RolloverMargin THEN -2 ELSE id + 1

\* for _ in 0..repeat_packets { socket.send(&packet).expect(..) }:
\* the failAt-th send call of this invocation fails and the expect panics
RECURSIVE SendRepeated(_, _, _, _)
SendRepeated(st, packet, left, failAt) ==
    IF left = 0 THEN st
    ELSE IF st.nsent + 1 = failAt
         THEN [st EXCEPT !.nsent = @ + 1, !.state = "panicked"]
         ELSE SendRepeated(
                  [st EXCEPT !.nsent = @ + 1,
                             !.out = Append(@, [bytes |-> packet,
                                                frame |-> Len(st.log),
                                                via |-> "net"])],
                  packet, left - 1, failAt)

\* faults of the Err branch: no rewind, and the counter advanced as after
\* a send
EncodeFailed_NoRewind(st, output) ==
    [st EXCEPT !.edb = output,
               !.log = Append(@, [id |-> st.id, after |-> st.id,
                                  frame |-> st.ib, upto |-> st.seen,
                                  payload |-> <<>>, done |-> TRUE,
                                  ok |-> FALSE, pb_left |-> st.pb,
                                  pos_left |-> st.pos])]

EncodeFailed_Advances(st, output) ==
    LET id2 == IF enable_packet_pacer THEN NextId(st.id) ELSE st.id
    IN  [st EXCEPT !.edb = output, !.pos = 0, !.id = id2,
                   !.log = Append(@, [id |-> st.id, after |-> id2,
                                      frame |-> st.ib, upto |-> st.seen,
                                      payload |-> <<>>, done |-> TRUE,
                                      ok |-> FALSE, pb_left |-> st.pb,
                                      pos_left |-> 0])]

\* `if let Err(err) = encoder.encode(..)` (265-266) and the rewind (296):
\* the error is printed, nothing is sent, buffer_pos = 0
EncodeFailed(st, output) ==
    [st EXCEPT !.edb = output, !.pos = 0,
               !.log = Append(@, [id |-> st.id, after |-> st.id,
                                  frame |-> st.ib, upto |-> st.seen,
                                  payload |-> <<>>, done |-> TRUE,
                                  ok |-> FALSE, pb_left |-> st.pb,
                                  pos_left |-> 0])]

\* the body of `if buffer_pos >= sample_frame_size` (263-297)
EncodeAndSend(st, failAt) ==
    LET resized == Resize(st.edb, calculate_packet_size, 0)
        res     == Encode(st.ib, resized, st.nenc + 1 = st.encFailAt)
        encoded == res.out
        withId  == IF enable_packet_pacer THEN add_packet_id(st.pb, st.id)
                   ELSE st.pb
        packet  == withId \o encoded
        entry   == [id |-> st.id, after |-> st.id, frame |-> st.ib,
                    upto |-> st.seen, payload |-> encoded, done |-> FALSE,
                    ok |-> TRUE, pb_left |-> packet, pos_left |-> st.pos]
        s0 == [st EXCEPT !.nenc = @ + 1]
        s1 == [s0 EXCEPT !.edb = encoded, !.pb = packet,
                         !.log = Append(@, entry)]
        s2 == SendRepeated(s1, packet, repeat_packets, failAt)
        n  == Len(s2.log)
    IN  IF ~res.ok THEN EncodeFailed(s0, encoded)
        ELSE IF s2.state = "panicked" THEN s2
        ELSE IF enable_packet_pacer /\ s2.id = I64_MAX
        THEN [s2 EXCEPT !.state = "overflow"]
        ELSE LET id2 == IF enable_packet_pacer THEN NextId(s2.id) ELSE s2.id
                 pb2 == Resize(s2.pb, SIGNATURE_SIZE, 0)
             IN  [s2 EXCEPT !.id = id2,
                            !.log[n].after = id2,
                            !.log[n].done = TRUE,
                            !.log[n].pb_left = pb2,
                            !.log[n].pos_left = 0,
                            !.pb = pb2,
                            !.pos = 0]

\* one iteration of `for &sample in data.iter()`
TxSample(st, sample, failAt) ==
    IF st.state # "running" THEN st
    ELSE
    LET L  == calculate_sample_frame_size
        s0 == [st EXCEPT !.seen = @ + 1]
        s1 == IF s0.pos < L
              THEN LET idx == SwapIndex(s0.pos)
                       sw  == [s0 EXCEPT !.writes =
                                  Append(@, [pos |-> s0.pos, idx |-> idx])]
                   IN  IF idx >= Len(s0.ib)
                       THEN [sw EXCEPT !.state = "panicked"]
                       ELSE [sw EXCEPT !.ib[idx + 1] = sample, !.pos = @ + 1]
              ELSE s0
    IN  IF s1.state = "running" /\ s1.pos >= L
        THEN EncodeAndSend(s1, failAt) ELSE s1

\* the for loop over data[lo..hi], split in halves to keep the evaluation
\* shallow; the samples are processed left to right
RECURSIVE TxLoop(_, _, _, _, _)
TxLoop(st, batch, lo, hi, failAt) ==
    IF lo > hi THEN st
    ELSE IF lo = hi THEN TxSample(st, batch[lo], failAt)
    ELSE LET mid == (lo + hi) \div 2
         IN  TxLoop(TxLoop(st, batch, lo, mid, failAt),
                    batch, mid + 1, hi, failAt)

\* the input stream callback, called with one batch of captured samples
TxCallback(batch, failAt) ==
    /\ tx_state = "running"
    /\ \E encFailAt \in EncodeFaults :
       LET st == TxLoop([TxCaptures EXCEPT !.encFailAt = encFailAt],
                        batch, 1, Len(batch), failAt)
       IN  /\ input_buffer' = st.ib
           /\ buffer_pos' = st.pos
           /\ encoded_data_buffer' = st.edb
           /\ packet_buffer' = st.pb
           /\ next_packet_id' = st.id
           /\ tx_state' = st.state
           /\ tx_log' = st.log
           /\ tx_writes' = st.writes
           /\ wire' = wire \o st.out
    /\ captured' = captured \o batch
    /\ UNCHANGED <<cfg_vars, pcm_vars, net_pos, rx_vars, jb_vars, pb_vars>>

----------------------------------------------------------------------------
(* Recieve: the networking thread (main.rs 346-434) *)

None == <<>>
Some(x) == <<x>>

data_offset ==
    IF enable_packet_pacer THEN SIGNATURE_SIZE + ID_SIZE ELSE SIGNATURE_SIZE

\* socket.recv(&mut buf): the datagram's first bytes overwrite the start of
\* the buffer, excess bytes are dropped (recv(2) on a datagram socket), the
\* rest of the buffer keeps what earlier datagrams left there
RecvBytes(buf, dgram) == Min2(Len(dgram), Len(buf))

RecvInto(buf, dgram) ==
    [i \in 1..Len(buf) |-> IF i <= Len(dgram) THEN dgram[i] ELSE buf[i]]

\* fault of the signature check: || for &&
SignatureOk_Either(buf) == buf[1] = 13 \/ buf[2] = 37

\* receive_buffer[0] == 13 && receive_buffer[1] == 37
SignatureOk(buf) == buf[1] = 13 /\ buf[2] = 37

\* faults of the sequence check: no rollover branch, and >= for >
TrackerAccepts_NoRollover(last, id) ==
    IF last # None THEN I64Less(last[1], id) ELSE TRUE

TrackerAccepts_AllowsEqual(last, id) ==
    IF last # None
    THEN IF ~I64Negative(last[1]) /\ I64Negative(id) THEN TRUE
         ELSE ~I64Less(id, last[1])
    ELSE TRUE

\* the sequence check (383-397): TRUE when the packet goes on to decode
TrackerAccepts(last, id) ==
    IF last # None
    THEN IF ~I64Negative(last[1]) /\ I64Negative(id) THEN TRUE
         ELSE IF I64Less(last[1], id) THEN TRUE
         ELSE FALSE
    ELSE TRUE

\* what the accepted samples look like on the queue (409-417)
PushOrder(decoded) ==
    IF stereo_swap
    THEN [k \in 1..(2 * (Len(decoded) \div 2)) |->
             IF k % 2 = 1 THEN decoded[k + 1] ELSE decoded[k - 1]]
    ELSE decoded

\* one pass of the loop body up to the lock: recv, signature check,
\* sequence check, payload slice, decode.  All of it is thread local.
\* (Which datagram arrives is the network's choice: the delivering action
\* also says what becomes of net_pos.)
RxRecv(dgram) ==
    /\ rx_pc = "recv"
    /\ \E fault \in DecodeFaults :
       LET n    == RecvBytes(receive_buffer, dgram.bytes)
           buf  == RecvInto(receive_buffer, dgram.bytes)
           sig  == SignatureOk(buf)
           id   == Slice(buf, SIGNATURE_SIZE, SIGNATURE_SIZE + ID_SIZE)
           acc  == ~enable_packet_pacer \/ TrackerAccepts(last_recv_id, id)
           last == IF sig /\ enable_packet_pacer /\ acc THEN Some(id)
                   ELSE last_recv_id
           res  == Decode(Slice(buf, data_offset, n), decode_buffer, fault)
           verdict == IF ~sig THEN "noise"
                      ELSE IF ~acc THEN "stale"
                      ELSE IF data_offset > n THEN "panic"
                      ELSE IF ~res.ok THEN "decode_err"
                      ELSE "decoded"
           entry == [bytes |-> dgram.bytes, frame |-> dgram.frame,
                     via |-> dgram.via, recv_bytes |-> n, id |-> id,
                     before |-> last_recv_id, verdict |-> verdict,
                     payload |-> IF verdict \in {"decoded", "decode_err"}
                                 THEN Slice(buf, data_offset, n) ELSE <<>>]
       IN  /\ receive_buffer' = buf
           /\ last_recv_id' = last
           /\ rx_log' = Append(rx_log, entry)
           /\ decode_buffer' =
                 IF verdict \in {"decoded", "decode_err"} THEN res.out
                 ELSE decode_buffer
           /\ rx_pc' = CASE verdict = "decoded" -> "lock"
                         [] verdict = "panic" -> "panicked"
                         [] OTHER -> "recv"
    /\ UNCHANGED <<cfg_vars, pcm_vars, tx_vars, wire, jb_vars, pb_vars>>

\* fault of the Err arm: the loop is left
RxRecvErr_Ends ==
    /\ rx_pc = "recv"
    /\ rx_pc' = "stopped"
    /\ rx_log' = Append(rx_log, [bytes |-> <<>>, frame |-> 0,
                                 via |-> "error", recv_bytes |-> 0,
                                 id |-> <<>>, before |-> last_recv_id,
                                 verdict |-> "error", payload |-> <<>>])
    /\ UNCHANGED <<cfg_vars, pcm_vars, tx_vars, net_vars, jb_vars, pb_vars,
                   receive_buffer, decode_buffer, last_recv_id>>

\* socket.recv returns Err: logged, next iteration
RxRecvErr ==
    /\ rx_pc = "recv"
    /\ rx_log' = Append(rx_log, [bytes |-> <<>>, frame |-> 0,
                                 via |-> "error", recv_bytes |-> 0,
                                 id |-> <<>>, before |-> last_recv_id,
                                 verdict |-> "error", payload |-> <<>>])
    /\ UNCHANGED <<cfg_vars, pcm_vars, tx_vars, net_vars, jb_vars, pb_vars,
                   receive_buffer, decode_buffer, last_recv_id, rx_pc>>

\* audio_buffer_clone.lock().unwrap()
RxAcquire ==
    /\ rx_pc = "lock"
    /\ lock = "free"
    /\ lock' = "rx"
    /\ rx_pc' = "push"
    /\ UNCHANGED <<cfg_vars, pcm_vars, tx_vars, net_vars, pb_vars,
                   audio_buffer, pushed,
                   receive_buffer, decode_buffer, last_recv_id, rx_log>>

\* fault of the critical section: the guard outlives the block and is
\* still held when the loop goes back to recv
RxPush_KeepsLock ==
    /\ rx_pc = "push"
    /\ lock = "rx"
    /\ audio_buffer' = audio_buffer \o PushOrder(decode_buffer)
    /\ pushed' = Append(pushed, [decoded |-> decode_buffer,
                                 appended |-> PushOrder(decode_buffer),
                                 frame |-> rx_log[Len(rx_log)].frame,
                                 rx |-> Len(rx_log)])
    /\ lock' = "rx"
    /\ rx_pc' = "recv"
    /\ UNCHANGED <<cfg_vars, pcm_vars, tx_vars, net_vars, pb_vars,
                   receive_buffer, decode_buffer, last_recv_id, rx_log>>

\* the critical section: append the frame, drop the guard
RxPush ==
    /\ rx_pc = "push"
    /\ lock = "rx"
    /\ audio_buffer' = audio_buffer \o PushOrder(decode_buffer)
    /\ pushed' = Append(pushed, [decoded |-> decode_buffer,
                                 appended |-> PushOrder(decode_buffer),
                                 frame |-> rx_log[Len(rx_log)].frame,
                                 rx |-> Len(rx_log)])
    /\ lock' = "free"
    /\ rx_pc' = "recv"
    /\ UNCHANGED <<cfg_vars, pcm_vars, tx_vars, net_vars, pb_vars,
                   receive_buffer, decode_buffer, last_recv_id, rx_log>>

----------------------------------------------------------------------------
(* Recieve: the output stream callback (main.rs 440-468) *)

\* what the device hands over in a destination element before it is written
Unwritten == 3 * One

\* faults of the pop loop: pop_back for pop_front, and no silence on underrun
RECURSIVE PopLoop_Back(_, _)
PopLoop_Back(st, i) ==
    IF i > Len(st.dest) THEN st
    ELSE PopLoop_Back(
           IF st.queue # <<>>
           THEN [st EXCEPT !.dest[i] = st.queue[Len(st.queue)],
                           !.queue = SubSeq(st.queue, 1, Len(st.queue) - 1),
                           !.filled = @ + 1]
           ELSE [st EXCEPT !.dest[i] = 0],
           i + 1)

\* fault of the pop loop: one more sample is taken off the queue at the end
RECURSIVE PopLoop_DropsOne(_, _)
PopLoop_DropsOne(st, i) ==
    IF i > Len(st.dest)
    THEN [st EXCEPT !.queue = IF @ = <<>> THEN @ ELSE Tail(@)]
    ELSE PopLoop_DropsOne(
           IF st.queue # <<>>
           THEN [st EXCEPT !.dest[i] = Head(st.queue),
                           !.queue = Tail(st.queue),
                           !.filled = @ + 1]
           ELSE [st EXCEPT !.dest[i] = 0],
           i + 1)

RECURSIVE PopLoop_NoSilence(_, _)
PopLoop_NoSilence(st, i) ==
    IF i > Len(st.dest) THEN st
    ELSE PopLoop_NoSilence(
           IF st.queue # <<>>
           THEN [st EXCEPT !.dest[i] = Head(st.queue),
                           !.queue = Tail(st.queue),
                           !.filled = @ + 1]
           ELSE st,
           i + 1)

\* for sample in data.iter_mut(): pop_front or silence
RECURSIVE PopLoop(_, _)
PopLoop(st, i) ==
    IF i > Len(st.dest) THEN st
    ELSE PopLoop(
           IF st.queue # <<>>
           THEN [st EXCEPT !.dest[i] = Head(st.queue),
                           !.queue = Tail(st.queue),
                           !.filled = @ + 1]
           ELSE [st EXCEPT !.dest[i] = 0],
           i + 1)

\* the device invokes the callback with a destination of d elements
PbInvoke(d) ==
    /\ pb_pc = "idle"
    /\ Len(played) < MaxPlay
    /\ data' = Repeat(Unwritten, d)
    /\ filled' = 0
    /\ pb_pc' = "lock"
    /\ UNCHANGED <<cfg_vars, pcm_vars, tx_vars, net_vars, rx_vars, jb_vars, played>>

\* audio_buffer_clone_2.lock().unwrap()
PbAcquire ==
    /\ pb_pc = "lock"
    /\ lock = "free"
    /\ lock' = "pb"
    /\ pb_pc' = "pop"
    /\ UNCHANGED <<cfg_vars, pcm_vars, tx_vars, net_vars, rx_vars,
                   audio_buffer, pushed, data, filled, played>>

\* fault of the callback: it returns with the guard still held
PbPop_KeepsLock ==
    /\ pb_pc = "pop"
    /\ lock = "pb"
    /\ LET st == PopLoop([dest |-> data, queue |-> audio_buffer, filled |-> 0], 1)
       IN  /\ data' = st.dest
           /\ filled' = st.filled
           /\ audio_buffer' = st.queue
           /\ played' = Append(played, [dest |-> st.dest, filled |-> st.filled,
                                        before |-> audio_buffer,
                                        after |-> st.queue])
    /\ lock' = "pb"
    /\ pb_pc' = "idle"
    /\ UNCHANGED <<cfg_vars, pcm_vars, tx_vars, net_vars, rx_vars, pushed>>

\* the critical section: fill the destination, drop the guard, return.
\* (The buffer-status lines 451-467 only print.)
PbPop ==
    /\ pb_pc = "pop"
    /\ lock = "pb"
    /\ LET st == PopLoop([dest |-> data, queue |-> audio_buffer, filled |-> 0], 1)
       IN  /\ data' = st.dest
           /\ filled' = st.filled
           /\ audio_buffer' = st.queue
           /\ played' = Append(played, [dest |-> st.dest, filled |-> st.filled,
                                        before |-> audio_buffer,
                                        after |-> st.queue])
    /\ lock' = "free"
    /\ pb_pc' = "idle"
    /\ UNCHANGED <<cfg_vars, pcm_vars, tx_vars, net_vars, rx_vars, pushed>>

----------------------------------------------------------------------------
(* Start-up: the state main() builds before the streams run *)

\* Transmit (235-241) and Recieve (337-364); the two ends are started with
\* the same options (--packet-pacing "must be set both sides")
PipelineStart(cdc, fs, ch, swap, pacer, rep) ==
    /\ codec = cdc
    /\ frame_size = fs
    /\ channels = ch
    /\ stereo_swap = swap
    /\ enable_packet_pacer = pacer
    /\ repeat_packets = rep
    /\ input_buffer = Repeat(0, fs * ch)
    /\ buffer_pos = 0
    /\ encoded_data_buffer = Repeat(0, fs * ch * 2)
    /\ packet_buffer = add_signature(<<>>)
    /\ next_packet_id = -1
    /\ tx_state = "running"
    /\ captured = <<>>
    /\ tx_writes = <<>>
    /\ tx_log = <<>>
    /\ wire = <<>>
    /\ net_pos = 0
    /\ receive_buffer = Repeat(0, fs * ch * 2 + SIGNATURE_SIZE + ID_SIZE)
    /\ decode_buffer = Repeat(0, fs * ch)
    /\ last_recv_id = None
    /\ rx_pc = "recv"
    /\ rx_log = <<>>
    /\ audio_buffer = <<>>
    /\ lock = "free"
    /\ pushed = <<>>
    /\ pb_pc = "idle"
    /\ data = <<>>
    /\ filled = 0
    /\ played = <<>>

\* no codec call outside the pipeline
PcmUnused ==
    /\ pcm_in = <<>>
    /\ pcm_bytes = <<>>
    /\ pcm_out = <<>>
    /\ pcm_prior = <<>>
    /\ pcm_pc = "unused"

StartWith(cdc, fs, ch, swap, pacer, rep) ==
    PipelineStart(cdc, fs, ch, swap, pacer, rep) /\ PcmUnused

\* --codec none is the default
Start(fs, ch, swap, pacer, rep) == StartWith("none", fs, ch, swap, pacer, rep)

----------------------------------------------------------------------------
(* The PCM codec on its own: encode called on sample vectors with an empty *)
(* output, decode called on encode's bytes and on arbitrary bytes, with    *)
(* output vectors of every length                                          *)

\* sample values in [-1.0, 1.0]: the ends, values next to them, values
\* around zero with and without a fraction of a step, a value past the low
\* byte
PcmSamples ==
    {-One, 1 - One, -(SubSteps + 1), -1, 0, 1, SubSteps, SubSteps + 1,
     256 * SubSteps + 1, One - 1, One}

\* byte values at the ends and at the sign change
PcmByteValues == {0, 1, 127, 128, 255}

Vectors(values, maxLen) == UNION {[1..n -> values] : n \in 0..maxLen}

\* encoder.encode(&s, &mut Vec::new())
PcmEncodeCall ==
    /\ pcm_pc = "samples"
    /\ pcm_bytes' = PCMEncode(pcm_in, <<>>)
    /\ pcm_pc' = "encoded"
    /\ UNCHANGED <<cfg_vars, tx_vars, net_vars, rx_vars, jb_vars, pb_vars,
                   pcm_in, pcm_out, pcm_prior>>

\* decoder.decode(&bytes, &mut out)
PcmDecodeCall ==
    /\ pcm_pc \in {"encoded", "bytes"}
    /\ pcm_prior' = pcm_out
    /\ pcm_out' = PCMDecode(pcm_bytes, pcm_out)
    /\ pcm_pc' = IF pcm_pc = "encoded" THEN "roundtrip" ELSE "decoded"
    /\ UNCHANGED <<cfg_vars, tx_vars, net_vars, rx_vars, jb_vars, pb_vars,
                   pcm_in, pcm_bytes>>

InitPcm ==
    /\ PipelineStart("none", 1, 1, FALSE, FALSE, 1)
    /\ pcm_prior = <<>>
    /\ \/ /\ pcm_pc = "samples"
          /\ pcm_in \in Vectors(PcmSamples, MaxPcmSamples)
          /\ pcm_bytes = <<>>
          /\ pcm_out = <<>>
       \/ /\ pcm_pc = "bytes"
          /\ pcm_in = <<>>
          /\ pcm_bytes \in Vectors(PcmByteValues, MaxPcmBytes)
          /\ \E n \in 0..MaxPcmOutput : pcm_out = Repeat(Unwritten, n)

NextPcm == PcmEncodeCall \/ PcmDecodeCall

SpecPcm == InitPcm /\ [][NextPcm]_vars

Abs(x) == IF x < 0 THEN -x ELSE x

\* C15: PCM round trip: for a sample vector s with values in [-1.0, 1.0],
\* decoding the bytes encode produced from s into an empty output gives a
\* vector of the same length whose every element is within 1/32767 of the
\* matching element of s.
C15_PcmRoundTrip ==
    pcm_pc = "roundtrip" =>
        /\ Len(pcm_out) = Len(pcm_in)
        /\ \A i \in 1..Len(pcm_in) : Abs(pcm_out[i] - pcm_in[i]) <= SubSteps

\* a round trip of two samples, one of them cut by the quantization
C15_Witness ==
    /\ pcm_pc = "roundtrip"
    /\ Len(pcm_in) = 2
    /\ pcm_prior = <<>>
    /\ \E i \in 1..2 : pcm_out[i] # pcm_in[i]
    /\ \E i \in 1..2 : Abs(pcm_in[i]) > 256 * SubSteps

\* the value of a little-endian pair as a 16-bit signed integer
Int16At(bytes, i) ==
    LET u == bytes[2 * i - 1] + 256 * bytes[2 * i]
    IN  IF u < 32768 THEN u ELSE u - 65536

\* C17: decode never fails because of the size of the caller's output: for
\* every input of n bytes and every prior output length it returns Ok with
\* the output resized to exactly n / 2 elements, each the little-endian
\* signed 16-bit value divided by 32767 and clamped to [-1.0, 1.0].
C17_DecodeResizes ==
    pcm_pc \in {"decoded", "roundtrip"} =>
        /\ Len(pcm_out) = Len(pcm_bytes) \div 2
        /\ \A i \in 1..Len(pcm_out) :
              LET v == Int16At(pcm_bytes, i) * SubSteps
              IN  pcm_out[i] = (IF v < -One THEN -One
                                ELSE IF v > One THEN One ELSE v)

\* decode grew a shorter output (odd input length, one value clamped)
C17_Witness ==
    /\ pcm_pc = "decoded"
    /\ Len(pcm_bytes) = 5
    /\ Len(pcm_prior) < 2
    /\ Len(pcm_out) = 2
    /\ Int16At(pcm_bytes, 1) = -32768 /\ pcm_out[1] = -One

\* decode shrank a longer output
C17_WitnessShrink ==
    /\ pcm_pc = "decoded"
    /\ Len(pcm_prior) > Len(pcm_out)

----------------------------------------------------------------------------
(* The transmitter alone, every configuration, every capture batch *)

\* sample values the capture device delivers: one that encodes to 1 (the
\* fraction is cut off) and one below -1.0 that is clamped to -32767
CaptureSamples == {SubSteps + 1, -(One + 1)}

Batches(maxLen) == UNION {[1..n -> CaptureSamples] : n \in 0..maxLen}

\* the device delivers a batch; send call number failAt (if any) fails
TxCapture ==
    \E batch \in Batches(MaxBatch), failAt \in {0, 1} :
        /\ Len(captured) + Len(batch) <= MaxCaptured
        /\ TxCallback(batch, failAt)

InitTx ==
    \E fs \in FrameSizes, ch \in ChannelCounts,
       swap \in BOOLEAN, pacer \in BOOLEAN, rep \in RepeatCounts :
        Start(fs, ch, swap, pacer, rep)

NextTx == TxCapture

SpecTx == InitTx /\ [][NextTx]_vars

----------------------------------------------------------------------------
(* The transmitter over many frames: one sample value, pacing on or off,   *)
(* long enough for the sequence counter to wrap and go on                  *)

FramesToWrap == (I64_MAX - RolloverMargin) + 2

Tone(n) == [i \in 1..n |-> SubSteps + 1]

\* every send succeeds
TxCaptureTone ==
    \E n \in 1..MaxBatch :
        /\ Len(tx_log) < FramesToWrap + 1
        /\ TxCallback(Tone(n), 0)

\* the first send call of the callback fails
TxCaptureToneFail ==
    \E n \in 1..MaxBatch :
        /\ Len(tx_log) < FramesToWrap + 1
        /\ TxCallback(Tone(n), 1)

InitLongRun ==
    \E ch \in ChannelCounts, swap \in BOOLEAN, pacer \in BOOLEAN,
       rep \in RepeatCounts :
        Start(1, ch, swap, pacer, rep)

NextLongRun == TxCaptureTone \/ TxCaptureToneFail

SpecLongRun == InitLongRun /\ [][NextLongRun]_vars

----------------------------------------------------------------------------
(* Properties of the transmitter *)

PcmPayloadLen == 2 * calculate_sample_frame_size

\* the id a datagram carries, read back as an integer
WireId(bytes) ==
    BEValue(Slice(bytes, SIGNATURE_SIZE, SIGNATURE_SIZE + ID_SIZE))

\* C3: every datagram sent is the two magic bytes, then the 8-byte
\* big-endian sequence id exactly when pacing is enabled, then the PCM
\* payload of exactly 2 * frame_size * channels bytes, so its length is
\* 2 + (8 if pacing) + 2N for every frame, the first and all later ones.
C3_DatagramLayout ==
    \A i \in 1..Len(wire) :
        LET b == wire[i].bytes
            e == tx_log[wire[i].frame]
            hdr == IF enable_packet_pacer THEN SIGNATURE_SIZE + ID_SIZE
                   ELSE SIGNATURE_SIZE
        IN  /\ Len(b) = hdr + PcmPayloadLen
            /\ SubSeq(b, 1, SIGNATURE_SIZE) = <<13, 37>>
            /\ enable_packet_pacer => WireId(b) = e.id

\* what the code sends instead: between header and encoded samples sit
\* the 2N zero bytes the encode buffer was resized to
C3_ActualLayout ==
    \A i \in 1..Len(wire) :
        LET b == wire[i].bytes
            hdr == IF enable_packet_pacer THEN SIGNATURE_SIZE + ID_SIZE
                   ELSE SIGNATURE_SIZE
        IN  /\ Len(b) = hdr + 2 * PcmPayloadLen
            /\ SubSeq(b, hdr + 1, hdr + PcmPayloadLen) = Repeat(0, PcmPayloadLen)

\* the k-th block of L captured samples, as the accumulator stores it
CapturedFrame(k) ==
    LET L == calculate_sample_frame_size
        chunk == SubSeq(captured, (k - 1) * L + 1, k * L)
    IN  IF stereo_swap
        THEN [i \in 1..L |-> IF i % 2 = 1 THEN chunk[i + 1] ELSE chunk[i - 1]]
        ELSE chunk

\* C6: after capture batches totalling T samples the callback has encoded
\* exactly floor(T / L) frames, the write cursor is T mod L, and frame k
\* holds the k-th block of L captured samples, none skipped.
C6_FramesPerSamples ==
    LET L == calculate_sample_frame_size
        T == Len(captured)
    IN  /\ Len(tx_log) = T \div L
        /\ buffer_pos = T % L
        /\ \A k \in 1..Len(tx_log) : tx_log[k].frame = CapturedFrame(k)

\* the same, for the runs in which no callback has panicked
C6_HoldsWhileRunning == tx_state = "running" => C6_FramesPerSamples

\* C7: with pacing the counter starts at -1, a frame's packets carry the
\* counter value from before the update, the counter grows by one per frame
\* and is set to -2 when the incremented value would exceed MAX - 16; so it
\* stays within -2 .. MAX - 16 and never overflows.
C7_CounterDiscipline ==
    enable_packet_pacer =>
        /\ -2 <= next_packet_id /\ next_packet_id <= I64_MAX - 16
        /\ tx_state # "overflow"
        /\ \A k \in 1..Len(tx_log) :
              LET e == tx_log[k]
                  before == IF k = 1 THEN -1 ELSE tx_log[k - 1].after
              IN  /\ e.id = before
                  /\ e.done => e.after = (IF e.id + 1 > I64_MAX - 16 THEN -2
                                          ELSE e.id + 1)
        /\ next_packet_id = (IF tx_log = <<>> THEN -1
                             ELSE tx_log[Len(tx_log)].after)
        /\ \A i \in 1..Len(wire) :
              WireId(wire[i].bytes) = tx_log[wire[i].frame].id

\* the counter has wrapped and frames were sent after the wrap
C7_Witness ==
    /\ enable_packet_pacer
    /\ \E k \in 1..Len(tx_log) :
          /\ tx_log[k].id = I64_MAX - 16
          /\ tx_log[k].after = -2
          /\ k < Len(tx_log)
    /\ \E i \in 1..Len(wire) : WireId(wire[i].bytes) = -2

\* C25: in the capture accumulator with channel swap every write index is
\* inside [0, L) for every frame length L = frame_size * channels, and a
\* completed frame is the captured samples with each even index exchanged
\* with its odd neighbour; without swap sample i of the frame is the i-th
\* captured sample.
C25_SwapStaysInFrame ==
    LET L == calculate_sample_frame_size
    IN  /\ \A w \in 1..Len(tx_writes) :
              0 <= tx_writes[w].idx /\ tx_writes[w].idx < L
        /\ \A k \in 1..Len(tx_log) :
              LET chunk == SubSeq(captured, (k - 1) * L + 1, k * L)
              IN  \A i \in 1..L :
                    tx_log[k].frame[i] =
                       (IF ~stereo_swap THEN chunk[i]
                        ELSE IF i % 2 = 1 THEN chunk[i + 1] ELSE chunk[i - 1])

\* the same for even frame lengths
C25_HoldsForEvenLength ==
    calculate_sample_frame_size % 2 = 0 => C25_SwapStaysInFrame

\* a frame whose send call failed: it was encoded but never completed
SendFailed(e) == ~e.done

\* C12: a failed socket send is recoverable: it does not halt capture, and
\* the frames completed by this and later capture callbacks are encoded and
\* sent (every block of L captured samples has its frame).
C12_SendFailureRecoverable ==
    (\E k \in 1..Len(tx_log) : SendFailed(tx_log[k])) =>
        /\ tx_state = "running"
        /\ Len(tx_log) = Len(captured) \div calculate_sample_frame_size

\* C13: after PCMCodec::encode(input, output) returns, output is exactly
\* 2 * input.len() bytes long, for every input and for the output buffer
\* the transmit callback passes in (resized to packet_size).
C13_EncodeOutputLength ==
    /\ \A k \in 1..Len(tx_log) :
          Len(tx_log[k].payload) = 2 * Len(tx_log[k].frame)
    /\ tx_log # <<>> => Len(encoded_data_buffer) = 2 * Len(input_buffer)

\* what encode leaves instead: the buffer as passed in, then the samples
C13_ActualOutput ==
    \A k \in 1..Len(tx_log) :
        tx_log[k].payload =
            Repeat(0, calculate_packet_size) \o PCMEncode(tx_log[k].frame, <<>>)

----------------------------------------------------------------------------
(* Datagrams of other origin: the receive socket takes whatever arrives *)

\* a datagram in the documented layout: signature, id when pacing, payload
Framed(id, payload) ==
    (IF enable_packet_pacer THEN add_packet_id(add_signature(<<>>), id)
     ELSE add_signature(<<>>)) \o payload

\* n PCM samples as 2n little-endian bytes
RECURSIVE PcmBytes(_)
PcmBytes(values) ==
    IF values = <<>> THEN <<>>
    ELSE I16ToLE(Head(values)) \o PcmBytes(Tail(values))

Remote(bytes) == [bytes |-> bytes, frame |-> 0, via |-> "remote"]

----------------------------------------------------------------------------
(* The transmitter with the opus codec, whose encode may fail *)

TxCaptureOpus ==
    \E batch \in Batches(MaxBatch) :
        /\ Len(captured) + Len(batch) <= MaxCaptured
        /\ TxCallback(batch, 0)

InitOpusTx ==
    \E ch \in ChannelCounts, swap \in BOOLEAN, pacer \in BOOLEAN,
       rep \in RepeatCounts :
        StartWith("opus", 1, ch, swap, pacer, rep)

NextOpusTx == TxCaptureOpus

SpecOpusTx == InitOpusTx /\ [][NextOpusTx]_vars

\* the datagrams sent for frame k
SentFor(k) == {i \in 1..Len(wire) : wire[i].frame = k}

\* C19: when encode fails for a completed frame no datagram is sent for
\* it, the sequence counter is not advanced, the packet buffer still holds
\* exactly the two magic bytes and the write cursor is reset to zero, so
\* the next frame is accumulated from the following samples and sent
\* under the id the failed frame would have carried.
C19_EncodeFailureSkipsFrame ==
    \A k \in 1..Len(tx_log) :
        LET e == tx_log[k]
            L == calculate_sample_frame_size
        IN  ~e.ok =>
              /\ SentFor(k) = {}
              /\ e.after = e.id
              /\ e.pb_left = <<13, 37>>
              /\ e.pos_left = 0
              /\ k = Len(tx_log) =>
                    /\ next_packet_id = e.id
                    /\ packet_buffer = <<13, 37>>
                    /\ buffer_pos = Len(captured) - e.upto
              /\ k < Len(tx_log) =>
                    LET nx == tx_log[k + 1]
                    IN  /\ nx.id = e.id
                        /\ nx.upto = e.upto + L
                        /\ nx.frame = CapturedFrame(k + 1)
                        /\ nx.ok =>
                              /\ Cardinality(SentFor(k + 1)) = repeat_packets
                              /\ \A i \in SentFor(k + 1) :
                                    wire[i].bytes = Framed(nx.id, nx.payload)

\* with pacing, a frame was sent, the next frame's encode failed and the
\* frame after that was sent
C19_Witness ==
    /\ enable_packet_pacer
    /\ \E k \in 2..(Len(tx_log) - 1) :
          /\ tx_log[k - 1].ok /\ SentFor(k - 1) # {}
          /\ ~tx_log[k].ok
          /\ tx_log[k + 1].ok /\ SentFor(k + 1) # {}
          /\ tx_log[k + 1].id = tx_log[k - 1].id + 1

\* frame k went out as repeat_packets identical datagrams and moved the
\* counter by one step
SentRepeated(k) ==
    LET e == tx_log[k]
    IN  /\ Cardinality(SentFor(k)) = repeat_packets
        /\ \A i \in SentFor(k) : wire[i].bytes = Framed(e.id, e.payload)
        /\ enable_packet_pacer =>
              /\ e.after = (IF e.id + 1 > I64_MAX - 16 THEN -2 ELSE e.id + 1)
              /\ k < Len(tx_log) => tx_log[k + 1].id = e.after
              /\ k = Len(tx_log) => next_packet_id = e.after
        /\ repeat_packets = 1 => \E i \in 1..Len(wire) : SentFor(k) = {i}

\* C23: for each successfully encoded frame the callback sends exactly
\* repeat_packets datagrams, all byte-identical (same id, same payload),
\* and the counter advances exactly once for the frame, not once per
\* datagram; with repeat_packets = 1 exactly one datagram per frame.
C23_RepeatedSends ==
    \A k \in 1..Len(tx_log) : tx_log[k].ok => SentRepeated(k)

\* the same for the frames whose send calls all returned Ok
C23_HoldsWhenSendsSucceed ==
    \A k \in 1..Len(tx_log) :
        (tx_log[k].ok /\ tx_log[k].done) => SentRepeated(k)

----------------------------------------------------------------------------
(* The sequence tracker: a receiver with pacing, fed well-formed packets   *)
(* with ids of every sign and order                                        *)

TrackerIds == {-257, -2, -1, 0, 1, 255, 256, I64_MAX - 16}

DeliverId ==
    \E id \in TrackerIds :
        /\ Len(rx_log) < MaxRecv
        /\ RxRecv(Remote(Framed(id, PcmBytes(<<1>>))))
        /\ UNCHANGED net_pos

InitTracker == \E ch \in ChannelCounts : Start(1, ch, FALSE, TRUE, 1)

NextTracker == DeliverId \/ RxAcquire \/ RxPush

SpecTracker == InitTracker /\ [][NextTracker]_vars

\* an entry of the receive log whose packet reached the sequence check
Checked(e) == e.verdict \in {"stale", "decoded", "decode_err", "panic"}
Accepted(e) == e.verdict \in {"decoded", "decode_err", "panic"}

\* lastAccepted after the k-th datagram was handled
LastAfter(k) == IF k = Len(rx_log) THEN last_recv_id ELSE rx_log[k + 1].before

\* C1: for every tracker state and incoming id x the loop accepts and sets
\* lastAccepted = x iff lastAccepted is unset, or x > lastAccepted, or
\* lastAccepted >= 0 and x < 0; otherwise it rejects and leaves it unchanged.
C1_TransitionRule ==
    enable_packet_pacer =>
    \A k \in 1..Len(rx_log) :
        LET e == rx_log[k]
            x == BEValue(e.id)
            rule == \/ e.before = None
                    \/ x > BEValue(e.before[1])
                    \/ BEValue(e.before[1]) >= 0 /\ x < 0
        IN  Checked(e) =>
              /\ Accepted(e) <=> rule
              /\ LastAfter(k) = (IF rule THEN Some(e.id) ELSE e.before)

\* all three accepting rules and a rejection have been exercised
C1_Witness ==
    /\ Len(rx_log) = 3
    /\ rx_log[1].before = None /\ Accepted(rx_log[1])
    /\ BEValue(rx_log[1].id) >= 0
    /\ BEValue(rx_log[2].id) < 0 /\ Accepted(rx_log[2])
    /\ BEValue(rx_log[3].id) < BEValue(rx_log[2].id)
    /\ rx_log[3].verdict = "stale"
    /\ last_recv_id = Some(rx_log[2].id)

\* C9: every id of a strictly increasing sequence is accepted; an id equal
\* to or lower than lastAccepted is rejected unless it is negative while
\* lastAccepted is nonnegative; that transition is accepted, once: the same
\* negative id arriving right after it is rejected.
C9_TrackerSequences ==
    LET n == Len(rx_log)
        id(k) == BEValue(rx_log[k].id)
        last(k) == BEValue(rx_log[k].before[1])
    IN  /\ (\A k \in 1..(n - 1) : id(k) < id(k + 1))
              => \A k \in 1..n : Accepted(rx_log[k])
        /\ \A k \in 1..n :
              (/\ rx_log[k].before # None
               /\ id(k) <= last(k)
               /\ ~(id(k) < 0 /\ last(k) >= 0))
              => rx_log[k].verdict = "stale"
        /\ \A k \in 1..n :
              (rx_log[k].before # None /\ last(k) >= 0 /\ id(k) < 0)
              => /\ Accepted(rx_log[k])
                 /\ (k < n /\ id(k + 1) = id(k))
                       => rx_log[k + 1].verdict = "stale"

\* a nonnegative id, then a negative one, then that negative id again
C9_Witness ==
    /\ Len(rx_log) = 3
    /\ BEValue(rx_log[1].id) >= 0
    /\ BEValue(rx_log[2].id) < 0
    /\ rx_log[3].id = rx_log[2].id
    /\ Accepted(rx_log[2])
    /\ rx_log[3].verdict = "stale"

----------------------------------------------------------------------------
(* The jitter buffer: the receive thread pushes decoded frames while the   *)
(* playback callback pops, in every interleaving the mutex allows          *)

\* payloads of zero, two and three samples with distinct values
JitterPayloads == {<<>>, <<-1, 2>>, <<3, -32768, 32767>>}

DeliverSamples ==
    \E values \in JitterPayloads :
        /\ Len(rx_log) < MaxPush
        /\ RxRecv(Remote(Framed(Len(rx_log), PcmBytes(values))))
        /\ UNCHANGED net_pos

Playback ==
    \E d \in 0..MaxDest : PbInvoke(d)

InitJitter ==
    \E ch \in ChannelCounts, swap \in BOOLEAN :
        Start(2, ch, swap, FALSE, 1)

NextJitter ==
    DeliverSamples \/ RxAcquire \/ RxPush \/ Playback \/ PbAcquire \/ PbPop

SpecJitter == InitJitter /\ [][NextJitter]_vars

\* the samples of all pushes, in push order
RECURSIVE AllPushed(_)
AllPushed(n) ==
    IF n = 0 THEN <<>> ELSE AllPushed(n - 1) \o pushed[n].appended

\* the real samples of all playback callbacks, in delivery order
RECURSIVE AllPlayed(_)
AllPlayed(n) ==
    IF n = 0 THEN <<>>
    ELSE AllPlayed(n - 1) \o SubSeq(played[n].dest, 1, played[n].filled)

IsPrefix(a, b) == Len(a) <= Len(b) /\ SubSeq(b, 1, Len(a)) = a

\* C4: in every interleaving of pushes and pops the real samples delivered
\* to playback, concatenated, are a prefix of the samples pushed,
\* concatenated: the queue holds exactly the rest, in order.
C4_FifoAcrossThreads ==
    /\ IsPrefix(AllPlayed(Len(played)), AllPushed(Len(pushed)))
    /\ AllPlayed(Len(played)) \o audio_buffer = AllPushed(Len(pushed))

\* two pushes with a pop between them, and a pop after them, both real
C4_Witness ==
    /\ Len(pushed) >= 2
    /\ Len(played) = 2
    /\ played[1].filled > 0 /\ played[2].filled > 0
    /\ played[1].before # <<>> /\ Len(played[2].before) > Len(played[1].after)
    /\ audio_buffer # <<>>

\* C21: the jitter-buffer lock is never held across a socket call: while
\* the receive thread is in recv, checking or decoding (or waiting for the
\* lock) it does not hold the lock; it holds it only while appending one
\* decoded frame, and every sample of the frame is appended in that one
\* critical section.
C21_LockOnlyAroundPush ==
    /\ rx_pc \in {"recv", "lock", "panicked"} => lock # "rx"
    /\ lock = "rx" <=> rx_pc = "push"
    /\ rx_pc = "push" =>
          /\ rx_log[Len(rx_log)].verdict = "decoded"
          /\ \A j \in 1..Len(pushed) : pushed[j].rx # Len(rx_log)
    /\ \A j \in 1..Len(pushed) :
          /\ pushed[j].appended = PushOrder(pushed[j].decoded)
          /\ \A i \in 1..Len(pushed) : pushed[i].rx = pushed[j].rx => i = j
    /\ Len(audio_buffer) + Len(AllPlayed(Len(played)))
          = Len(AllPushed(Len(pushed)))

\* the receive thread is back in recv after a push, without the lock,
\* while the playback callback holds it
C21_Witness ==
    /\ rx_pc = "recv"
    /\ Len(pushed) >= 1
    /\ pushed[1].appended # <<>>
    /\ lock = "pb"

\* The two threads under a fair scheduler: a thread that can run does run
\* (the holder of the lock leaves its critical section, a thread waiting
\* for a lock that is free again and again gets it).  Nothing obliges a
\* datagram to arrive or the device to call back.
DeliverFrame ==
    /\ Len(rx_log) < MaxPush
    /\ RxRecv(Remote(Framed(Len(rx_log), PcmBytes(<<-1, 2>>))))
    /\ UNCHANGED net_pos

PlaybackRequest ==
    \E d \in {1, MaxDest} : PbInvoke(d)

InitFair ==
    \E ch \in ChannelCounts, swap \in BOOLEAN :
        Start(2, ch, swap, FALSE, 1)

NextFair ==
    DeliverFrame \/ RxAcquire \/ RxPush \/ PlaybackRequest \/ PbAcquire \/ PbPop

SpecFair ==
    /\ InitFair /\ [][NextFair]_vars
    /\ WF_vars(RxPush)
    /\ WF_vars(PbPop)
    /\ SF_vars(RxAcquire)
    /\ SF_vars(PbAcquire)

\* no thread waits for a lock that nobody can release
NoLockDeadlock ==
    /\ lock = "rx" => rx_pc = "push"
    /\ lock = "pb" => pb_pc = "pop"
    /\ lock \in {"free", "rx", "pb"}

\* the callback has returned with every destination element written
PbCompleted ==
    /\ pb_pc = "idle"
    /\ \A i \in 1..Len(data) : data[i] # Unwritten

\* C22: under fair scheduling every playback callback that requests the
\* lock gets it and completes with every destination element written,
\* whatever the receive thread does (also when it blocks in recv for
\* ever); the two threads never deadlock.
C22_PlaybackCompletes ==
    /\ []NoLockDeadlock
    /\ (pb_pc = "lock") ~> PbCompleted

\* the callback asks for the lock while the receive thread holds it
C22_Witness ==
    /\ pb_pc = "lock"
    /\ lock = "rx"
    /\ data # <<>>

\* a sequence with each consecutive pair exchanged
PairsExchanged(v) ==
    [k \in 1..Len(v) |-> IF k % 2 = 1 THEN v[k + 1] ELSE v[k - 1]]

\* C24: a push of a decoded frame of length n appends exactly n samples to
\* the queue tail: without channel swap in the original order, with channel
\* swap with each consecutive pair exchanged and nothing else changed, for
\* every decoded length n.
C24_PushAppendsFrame ==
    \A j \in 1..Len(pushed) :
        LET p == pushed[j]
        IN  /\ Len(p.appended) = Len(p.decoded)
            /\ ~stereo_swap => p.appended = p.decoded
            /\ stereo_swap =>
                  \A k \in 1..Len(p.decoded) :
                      p.appended[k] = (IF k % 2 = 1 THEN p.decoded[k + 1]
                                       ELSE p.decoded[k - 1])

\* what a push appends: with channel swap the pairs exchanged and the last
\* sample of an odd-length frame left out
C24_ActualPush ==
    \A j \in 1..Len(pushed) :
        LET p == pushed[j]
            n == Len(p.decoded)
        IN  p.appended =
               (IF stereo_swap
                THEN PairsExchanged(SubSeq(p.decoded, 1, 2 * (n \div 2)))
                ELSE p.decoded)

\* C16: the jitter buffer has a bounded capacity derived from the
\* configuration: however far the pushes outpace the pops, the queue never
\* holds more than max_buffer_frames * frame_size * channels samples.
C16_BoundedCapacity == Len(audio_buffer) <= ReservedSamples

\* what the code keeps instead: every sample pushed and not yet played
C16_QueueKeepsEverything ==
    Len(audio_buffer) = Len(AllPushed(Len(pushed))) - Len(AllPlayed(Len(played)))

\* C5: a pop into d elements from a queue of q samples writes the first
\* min(q, d) queued samples in order, then 0.0 in every remaining element,
\* counts min(q, d) and leaves the other max(0, q - d) samples in order.
C5_PopInto ==
    \A k \in 1..Len(played) :
        LET p == played[k]
            q == Len(p.before)
            d == Len(p.dest)
            m == IF q < d THEN q ELSE d
        IN  /\ \A i \in 1..d : p.dest[i] = (IF i <= m THEN p.before[i] ELSE 0)
            /\ p.filled = m
            /\ p.after = SubSeq(p.before, m + 1, q)
            /\ k = Len(played) /\ pb_pc = "idle" => data = p.dest /\ filled = m

\* an underrun, an exact or partial drain, and an empty-queue pop
C5_Witness ==
    /\ Len(played) = 2
    /\ Len(played[1].before) > Len(played[1].dest) /\ Len(played[1].dest) > 0
    /\ Len(played[2].before) < Len(played[2].dest) /\ played[2].before # <<>>

----------------------------------------------------------------------------
(* Noise: truncated, oversized and foreign datagrams, and socket errors *)

Prefixes(b, lens) == {SubSeq(b, 1, n) : n \in {m \in lens : m <= Len(b)}}

\* a well-formed datagram but for the second magic byte
NearMiss == <<13, 36>> \o BEBytes(7, ID_SIZE) \o PcmBytes(<<5>>)

NoiseDatagrams ==
    Prefixes(Framed(1, PcmBytes(<<1, 2>>)), {0, 1, 2, 3, 9, 10, 11, 12, 14})
    \cup {<<0>>, <<37, 13, 1, 2>>, NearMiss,
          Framed(2, PcmBytes(<<1, 2, 3, 4, 5, 6, 7, 8>>))}

DeliverNoise ==
    \E b \in NoiseDatagrams :
        /\ Len(rx_log) < MaxRecv
        /\ RxRecv(Remote(b))
        /\ UNCHANGED net_pos

RecvError ==
    /\ Len(rx_log) < MaxRecv
    /\ RxRecvErr

InitNoise ==
    \E ch \in ChannelCounts, pacer \in BOOLEAN : Start(1, ch, FALSE, pacer, 1)

NextNoise == DeliverNoise \/ RecvError \/ RxAcquire \/ RxPush

SpecNoise == InitNoise /\ [][NextNoise]_vars

OwnMagic(b) == Len(b) >= 2 /\ b[1] = 13 /\ b[2] = 37

\* C10: whatever datagram arrives, of any length from 0 up to the buffer
\* size and after any earlier datagrams, the loop discards it or decodes
\* and pushes it and goes on to the next receive; a datagram that does not
\* itself begin with the two magic bytes is discarded.
C10_ToleratesEveryDatagram ==
    /\ rx_pc # "panicked"
    /\ \A k \in 1..Len(rx_log) :
          (rx_log[k].via = "remote" /\ ~OwnMagic(rx_log[k].bytes))
              => rx_log[k].verdict = "noise"

\* C11: when the first two bytes of a received datagram are not 0x0D 0x25
\* the loop leaves lastAccepted and the queue as they were (nothing is
\* pushed for that datagram) and goes on to the next receive.
C11_BadMagicDiscarded ==
    \A k \in 1..Len(rx_log) :
        LET b == rx_log[k].bytes
        IN  (Len(b) >= 2 /\ <<b[1], b[2]>> # <<13, 37>>) =>
              /\ LastAfter(k) = rx_log[k].before
              /\ \A j \in 1..Len(pushed) : pushed[j].rx # k
              /\ k = Len(rx_log) => rx_pc = "recv"

\* a datagram with a wrong magic byte arrived after a frame was accepted
\* and pushed, and another datagram was received after it
C11_Witness ==
    /\ Len(rx_log) = 3
    /\ rx_log[1].verdict = "decoded"
    /\ Len(pushed) >= 1 /\ pushed[1].rx = 1 /\ audio_buffer # <<>>
    /\ rx_log[2].bytes = NearMiss
    /\ rx_pc = "recv"

----------------------------------------------------------------------------
(* The receiver with the opus codec, whose decode may fail, on a socket    *)
(* whose recv may fail                                                     *)

\* payloads: a packet of one sample, one of three samples (more than the
\* decode buffer holds), bytes that are no opus packet, and none
OpusPayloads ==
    {OpusPacket(<<One>>), OpusPacket(<<One, 0, -One>>), PcmBytes(<<1>>), <<>>}

DeliverOpus ==
    \E payload \in OpusPayloads :
        /\ Len(rx_log) < MaxRecv
        /\ RxRecv(Remote(Framed(Len(rx_log), payload)))
        /\ UNCHANGED net_pos

InitOpusRx ==
    \E ch \in ChannelCounts, pacer \in BOOLEAN :
        StartWith("opus", 1, ch, FALSE, pacer, 1)

NextOpusRx == DeliverOpus \/ RecvError \/ RxAcquire \/ RxPush

SpecOpusRx == InitOpusRx /\ [][NextOpusRx]_vars

\* C20: a socket receive error or a decode failure pushes nothing into the
\* jitter buffer and does not end the loop, which goes on to the next
\* receive; a socket receive error also leaves lastAccepted unchanged.
C20_ReceiveErrorsSkipped ==
    \A k \in 1..Len(rx_log) :
        LET e == rx_log[k]
        IN  e.verdict \in {"error", "decode_err"} =>
              /\ \A j \in 1..Len(pushed) : pushed[j].rx # k
              /\ k = Len(rx_log) => rx_pc = "recv" /\ lock = "free"
              /\ e.verdict = "error" => LastAfter(k) = e.before

\* a receive error and a decode failure, in either order, and then a frame
\* that was decoded and pushed
C20_Witness ==
    /\ Len(rx_log) = 3
    /\ {rx_log[1].verdict, rx_log[2].verdict} = {"error", "decode_err"}
    /\ rx_log[3].verdict = "decoded"
    /\ Len(pushed) = 1 /\ pushed[1].rx = 3
    /\ audio_buffer # <<>>

----------------------------------------------------------------------------
(* End to end: transmitter, a network that may lose, duplicate and reorder *)
(* datagrams, receive thread, playback                                     *)

TxCaptureShort ==
    \E n \in 1..MaxBatch, failAt \in {0, 1} :
        /\ Len(captured) + n <= MaxCaptured
        /\ TxCallback(Tone(n), failAt)

\* UDP: any datagram sent so far may arrive now, again or never
NetDeliverAny ==
    \E i \in 1..Len(wire) :
        /\ Len(rx_log) < MaxRecv
        /\ RxRecv(wire[i])
        /\ UNCHANGED net_pos

Init ==
    \E pacer \in BOOLEAN, rep \in RepeatCounts : Start(1, 1, FALSE, pacer, rep)

Next ==
    \/ TxCaptureShort
    \/ NetDeliverAny
    \/ RxAcquire
    \/ RxPush

Spec == Init /\ [][Next]_vars

\* C2: with pacing, whatever duplication and reordering the network
\* applies, the samples of any one transmitted frame are pushed into the
\* jitter buffer at most once.
C2_FramePushedAtMostOnce ==
    enable_packet_pacer =>
        \A f \in 1..Len(tx_log) :
            Cardinality({k \in 1..Len(pushed) : pushed[k].frame = f}) <= 1

\* C14: framing round trip: the bytes the sender builds for a frame
\* (signature, id when pacing, payload) are parsed by the receiver
\* (signature check, big-endian i64 at bytes 2..10 when pacing, the rest from
\* the data offset to the datagram length) into the same id and payload.
C14_FramingRoundTrip ==
    \A k \in 1..Len(rx_log) :
        LET e == rx_log[k]
            sent == tx_log[e.frame]
        IN  e.via = "net" =>
              /\ e.verdict # "noise"
              /\ enable_packet_pacer => BEValue(e.id) = sent.id
              /\ e.verdict = "decoded" => e.payload = sent.payload

\* the round trip for every datagram in the sender's layout that fits the
\* receive buffer of packet_size + 10 bytes
C14_HoldsWithinBuffer ==
    \A k \in 1..Len(rx_log) :
        LET e == rx_log[k]
            b == e.bytes
        IN  (OwnMagic(b) /\ data_offset <= Len(b)
               /\ Len(b) <= Len(receive_buffer)) =>
              /\ e.verdict # "noise"
              /\ enable_packet_pacer =>
                    e.id = SubSeq(b, SIGNATURE_SIZE + 1, SIGNATURE_SIZE + ID_SIZE)
              /\ e.verdict = "decoded" =>
                    e.payload = SubSeq(b, data_offset + 1, Len(b))

\* what a push of the sender's frame f should hold
SentSamples(f) == PCMDecode(PCMEncode(tx_log[f].frame, <<>>), <<>>)

\* C18: end to end with the PCM codec and no channel swap: for a completed
\* capture frame of N = frame_size * channels samples whose datagram
\* arrives intact, the receive loop pushes exactly N samples and they equal
\* PCM-decode(PCM-encode(frame)), with pacing and without.
C18_EndToEndFrame ==
    \A j \in 1..Len(pushed) :
        pushed[j].frame > 0 =>
            /\ Len(pushed[j].appended) = calculate_sample_frame_size
            /\ pushed[j].appended = SentSamples(pushed[j].frame)

\* the same, told apart by the pacing option
C18_WithPacing == enable_packet_pacer => C18_EndToEndFrame
C18_WithoutPacing == ~enable_packet_pacer => C18_EndToEndFrame

\* what arrives instead: the N samples decoded from the zero bytes in front
\* of the payload, then as many real samples as the receive buffer had room
\* for (none with pacing, up to 4 without)
C18_ActualPush ==
    \A j \in 1..Len(pushed) :
        pushed[j].frame > 0 =>
            LET N == calculate_sample_frame_size
                room == IF enable_packet_pacer THEN 0 ELSE Min2(N, 4)
            IN  pushed[j].appended =
                    Repeat(0, N) \o SubSeq(SentSamples(pushed[j].frame), 1, room)

----------------------------------------------------------------------------
(* Rollover: the transmitter runs past the wrap of its counter; the        *)
(* receiver starts at any time and loses what was sent before; from then   *)
(* on the network delivers in sending order and may replay a datagram      *)

NetDeliverNext ==
    /\ net_pos < Len(wire)
    /\ Len(rx_log) < MaxOrderedRecv
    /\ net_pos' = net_pos + 1
    /\ RxRecv(wire[net_pos + 1])

\* the datagram arrives before the receiver has bound its socket: dropped
NetBeforeBind ==
    /\ net_pos < Len(wire)
    /\ rx_log = <<>>
    /\ net_pos' = net_pos + 1
    /\ UNCHANGED <<cfg_vars, pcm_vars, tx_vars, wire, rx_vars, jb_vars, pb_vars>>

Replays == Cardinality({k \in 1..Len(rx_log) : rx_log[k].via = "replay"})

\* a datagram the receiver has taken arrives again
NetReplay ==
    \E i \in 1..net_pos :
        /\ \E k \in 1..Len(rx_log) : rx_log[k].frame = wire[i].frame
        /\ Len(rx_log) < MaxOrderedRecv
        /\ Replays < MaxReplay
        /\ RxRecv([wire[i] EXCEPT !.via = "replay"])
        /\ UNCHANGED net_pos

InitRollover == Start(1, 1, FALSE, TRUE, 1)

NextRollover ==
    \/ TxCaptureTone
    \/ NetDeliverNext
    \/ NetBeforeBind
    \/ NetReplay
    \/ RxAcquire
    \/ RxPush

SpecRollover == InitRollover /\ [][NextRollover]_vars

RolloverStart == I64_MAX - 20

\* the receive log is exactly: the five packets with ids MAX - 20 ..
\* MAX - 16 in order, taken by a fresh tracker
FiveInOrder ==
    /\ Len(rx_log) >= 5
    /\ rx_log[1].before = None
    /\ \A k \in 1..5 : BEValue(rx_log[k].id) = RolloverStart + (k - 1)

\* C8: from counter MAX - 20, five frames later the counter is -2; a fresh
\* tracker that gets those five packets in order accepts all five and then
\* rejects a replay of any one of them.
C8_RolloverScenario ==
    /\ \A k \in 1..Len(tx_log) :
          (tx_log[k].id = RolloverStart /\ k + 4 <= Len(tx_log)
             /\ tx_log[k + 4].done)
          => /\ tx_log[k + 4].after = -2
             /\ \A j \in 0..4 : tx_log[k + j].id = RolloverStart + j
    /\ FiveInOrder =>
          /\ \A k \in 1..5 : Accepted(rx_log[k])
          /\ (Len(rx_log) >= 6 /\ rx_log[6].via = "replay"
                 /\ \E k \in 1..5 : rx_log[6].id = rx_log[k].id)
             => rx_log[6].verdict = "stale"

\* the five packets were taken and one of them was replayed
C8_Witness ==
    /\ FiveInOrder
    /\ Len(rx_log) = 6
    /\ rx_log[6].via = "replay"
    /\ \E k \in 1..5 : rx_log[6].id = rx_log[k].id
    /\ next_packet_id = -2


----------------------------------------------------------------------------
(* Lossy network: the transmitter runs through a whole cycle of its        *)
(* counter and on; the network loses any datagram or delivers it, in       *)
(* sending order and once                                                  *)

\* every send succeeds; long enough to send ids -2, -1, 0 after the wrap
TxCaptureCycle ==
    \E n \in 1..MaxBatch :
        /\ Len(tx_log) < FramesToWrap + 2
        /\ TxCallback(Tone(n), 0)

\* the next datagram is lost on the way
NetLose ==
    /\ net_pos < Len(wire)
    /\ net_pos' = net_pos + 1
    /\ UNCHANGED <<cfg_vars, pcm_vars, tx_vars, wire, rx_vars, jb_vars, pb_vars>>

InitLossy == Start(1, 1, FALSE, TRUE, 1)

NextLossy ==
    \/ TxCaptureCycle
    \/ NetDeliverNext
    \/ NetLose
    \/ RxAcquire
    \/ RxPush

SpecLossy == InitLossy /\ [][NextLossy]_vars

\* receive k has been carried through to its push
Handled(k) == k < Len(rx_log) \/ rx_pc = "recv"

\* C26: with pacing and a network that loses packets but delivers the rest
\* in sending order and once, every delivered packet is accepted by the
\* tracker and its samples are pushed, at every point of the id cycle
\* including the wrap from MAX - 16 to -2.
C26_LossNeverRejects ==
    \A k \in 1..Len(rx_log) :
        /\ rx_log[k].verdict = "decoded"
        /\ Handled(k) => \E j \in 1..Len(pushed) : pushed[j].rx = k

\* a delivered packet is rejected only when the sender's counter wrapped
\* between an earlier delivered packet and it, and a packet sent between the
\* two was lost; whatever is accepted is pushed
C26_RejectsOnlyAcrossLostWrap ==
    \A k \in 1..Len(rx_log) :
        /\ rx_log[k].verdict \in {"decoded", "stale"}
        /\ rx_log[k].verdict = "stale" =>
              \E j \in 1..(k - 1) :
                 /\ \E f \in (rx_log[j].frame + 1)..rx_log[k].frame :
                       tx_log[f].id = -2
                 /\ \E f \in (rx_log[j].frame + 1)..(rx_log[k].frame - 1) :
                       \A i \in 1..Len(rx_log) : rx_log[i].frame # f
        /\ (rx_log[k].verdict = "decoded" /\ Handled(k)) =>
              \E j \in 1..Len(pushed) : pushed[j].rx = k

\* ids -2 and -1 were lost after the wrap and id 0 was delivered
C26_LostWrap ==
    /\ Len(rx_log) >= 2
    /\ BEValue(rx_log[Len(rx_log) - 1].id) = I64_MAX - RolloverMargin
    /\ BEValue(rx_log[Len(rx_log)].id) = 0
    /\ rx_log[Len(rx_log)].verdict = "stale"


----------------------------------------------------------------------------
(* Channel alignment: interleaved frames of one or two channels go through *)
(* the queue; playback asks for one sample or for whole groups of samples  *)

AlignedPayloads == {<<-1, 2>>, <<3, -32768, 32767>>, <<4, 5, 6, 7>>}

AlignedDests == {1} \cup {2 * d : d \in 1..MaxDest}

DeliverAligned ==
    \E values \in AlignedPayloads :
        /\ Len(rx_log) < MaxPush
        /\ RxRecv(Remote(Framed(Len(rx_log), PcmBytes(values))))
        /\ UNCHANGED net_pos

PlaybackAligned ==
    \E d \in AlignedDests : PbInvoke(d)

InitAligned ==
    \E ch \in ChannelCounts, swap \in BOOLEAN :
        Start(2, ch, swap, FALSE, 1)

NextAligned ==
    DeliverAligned \/ RxAcquire \/ RxPush \/ PlaybackAligned \/ PbAcquire \/ PbPop

SpecAligned == InitAligned /\ [][NextAligned]_vars

\* every frame pushed and every playback request is a whole number of
\* groups of one sample per channel
WholeGroups ==
    /\ \A j \in 1..Len(pushed) : Len(pushed[j].appended) % channels = 0
    /\ \A n \in 1..Len(played) : Len(played[n].dest) % channels = 0
    /\ Len(data) % channels = 0

\* C27: if every pushed frame and every playback request has a length that
\* is a multiple of the channel count c, the queue length is a multiple of c
\* and every real sample written to destination position i was pushed at a
\* frame position congruent to i modulo c, also after underruns.
C27_ChannelAlignment ==
    WholeGroups =>
        /\ Len(audio_buffer) % channels = 0
        /\ \A n \in 1..Len(played) :
              \A i \in 1..played[n].filled :
                 LET g == Len(AllPlayed(n - 1)) + i
                 IN  \E j \in 1..Len(pushed) :
                        LET p == g - Len(AllPushed(j - 1))
                        IN  /\ p \in 1..Len(pushed[j].appended)
                            /\ played[n].dest[i] = pushed[j].appended[p]
                            /\ (p - i) % channels = 0

\* two channels: a playback that ran dry after one group, with silence
\* after it, and a later playback that got real samples of a later frame
C27_Witness ==
    /\ WholeGroups
    /\ channels = 2
    /\ Len(played) = 2
    /\ played[1].filled = 2 /\ Len(played[1].dest) = 4
    /\ played[2].filled >= 2
    /\ Len(pushed) = 2
    /\ audio_buffer # <<>>


====
